---- MODULE Spec2Model ----
(***************************************************************************)
(* rm_block.py: a one-shot script that reads src/App.tsx, finds every      *)
(* occurrence of the marker  id="kpi-pocket-coverage",  and removes the    *)
(* lines from the one holding the last occurrence through the one holding  *)
(* the next </Section>, writing the result back.                           *)
(*                                                                         *)
(* Strings are sequences of one-character strings.  Positions are the      *)
(* 0-based offsets Python uses; -1 is str.find's "not found".              *)
(***************************************************************************)
EXTENDS Integers, Sequences, FiniteSets, TLC

VARIABLES
    file,          \* the characters stored in src/App.tsx
    pc,            \* the statement the process is about to execute
    text,          \* text = text_path.read_text(...)
    indices,       \* indices
    start,         \* start
    i,             \* i
    remove_start,  \* remove_start
    end,           \* end
    line_start,    \* line_start
    new_text,      \* new_text
    out,           \* what the process printed on standard output, in order
    exitMsg,       \* how the process ended: Running, ExitOk or a SystemExit message
    reads,         \* number of read_text calls of this process
    writes,        \* number of write_text calls of this process
    file0,         \* history: the file when this process started
    n0,            \* history: marker occurrences in the very first content
    successes,     \* history: number of processes that ended normally so far
    settled,       \* history: <<file>> as it was when a process first aborted
    lastOk         \* history: <<file0>> of the latest process that ended normally

vars == <<file, pc, text, indices, start, i, remove_start, end, line_start,
          new_text, out, exitMsg, reads, writes, file0, n0, successes, settled,
          lastOk>>

locals == <<text, indices, start, i, remove_start, end, line_start, new_text>>
history == <<file0, n0, successes, settled, lastOk>>

----------------------------------------------------------------------------
(* Characters and the two fixed substrings                                 *)

NL == "\n"
CR == "\r"
Filler == "x"

\* sub = 'id="kpi-pocket-coverage"'
sub == <<"i","d","=","\"","k","p","i","-","p","o","c","k","e","t","-",
         "c","o","v","e","r","a","g","e","\"">>

\* '</Section>'
closeTag == <<"<","/","S","e","c","t","i","o","n",">">>

\* os.linesep on the platforms Python runs on
LineSeps == { <<NL>>, <<CR, NL>> }

Running == "running"
ExitOk == "exit 0"
NothingToRemove == "nothing to remove"
EndNotFound == "end not found"

----------------------------------------------------------------------------
(* Bounds: the files explored are concatenations of at most MaxChunks      *)
(* pieces (MaxFairChunks where behaviours are checked under fairness),     *)
(* each the marker, the closing tag, a line feed, a carriage return or     *)
(* one other character.                                                    *)

MaxChunks == 6
MaxFairChunks == 4

Chunks == { sub, closeTag, <<NL>>, <<CR>>, <<Filler>> }

RECURSIVE Concat(_)
Concat(cs) == IF cs = <<>> THEN <<>> ELSE Head(cs) \o Concat(Tail(cs))

FilesUpTo(max) == { Concat(cs) : cs \in UNION { [1..n -> Chunks] : n \in 0..max } }

----------------------------------------------------------------------------
(* Python's str operations                                                 *)

Min(S) == CHOOSE x \in S : \A y \in S : x <= y
Max(S) == CHOOSE x \in S : \A y \in S : x >= y

\* t[p : p+len(s)] == s
MatchAt(t, s, p) ==
    /\ p >= 0
    /\ p + Len(s) <= Len(t)
    /\ \A k \in 1..Len(s) : t[p + k] = s[k]

\* t.find(s, from): the lowest offset >= from where s occurs, or -1
Find(t, s, from) ==
    LET hits == { p \in from..(Len(t) - Len(s)) : MatchAt(t, s, p) }
    IN  IF hits = {} THEN -1 ELSE Min(hits)

\* t.rfind(s, lo, hi): the highest offset where s occurs within t[lo:hi], or -1
RFind(t, s, lo, hi) ==
    LET top  == IF hi < Len(t) THEN hi ELSE Len(t)
        hits == { p \in lo..(top - Len(s)) : MatchAt(t, s, p) }
    IN  IF hits = {} THEN -1 ELSE Max(hits)

\* t[a:b] for 0 <= a, b <= len(t)
Slice(t, a, b) == SubSeq(t, a + 1, b)

\* read_text: text mode with newline=None translates \r\n and \r to \n.
\* DecodeAt is what the character at p (from 1) of f contributes.
DecodeAt(f, p) ==
    IF f[p] = CR THEN <<NL>>
    ELSE IF f[p] = NL /\ p > 1 /\ f[p - 1] = CR THEN <<>>
    ELSE <<f[p]>>

RECURSIVE Decode(_, _, _)
Decode(f, lo, hi) ==
    IF lo > hi THEN <<>>
    ELSE IF lo = hi THEN DecodeAt(f, lo)
    ELSE LET mid == (lo + hi) \div 2
         IN  Decode(f, lo, mid) \o Decode(f, mid + 1, hi)

ReadText(f) == Decode(f, 1, Len(f))

\* write_text: text mode with newline=None writes every \n as os.linesep
EncodeAt(t, ls, p) == IF t[p] = NL THEN ls ELSE <<t[p]>>

RECURSIVE Encode(_, _, _, _)
Encode(t, ls, lo, hi) ==
    IF lo > hi THEN <<>>
    ELSE IF lo = hi THEN EncodeAt(t, ls, lo)
    ELSE LET mid == (lo + hi) \div 2
         IN  Encode(t, ls, lo, mid) \o Encode(t, ls, mid + 1, hi)

WriteText(t, ls) == Encode(t, ls, 1, Len(t))

----------------------------------------------------------------------------
(* The expressions of the script, one operator per expression              *)

\* line 12: start = i + 1
NextStart_SkipOne(at) == at + Len(sub) + 1
NextStart(at) == at + 1

\* line 14: len(indices) <= 1
TooFew_Strict(ix) == Len(ix) < 1
TooFew_UpToTwo(ix) == Len(ix) <= 2
TooFew(ix) == Len(ix) <= 1

\* line 16: indices[-1]
LastIndex_First(ix) == ix[1]
LastIndex(ix) == ix[Len(ix)]

\* line 17: text.find('</Section>', remove_start)
TagFrom_Beginning(t, rs) == Find(t, closeTag, 0)
TagFrom(t, rs) == Find(t, closeTag, rs)

\* line 18: end == -1
EndMissing_Zero(e) == e = 0
EndMissing(e) == e = -1

\* lines 20-22: end = text.find('\n', end); if end == -1: end = len(text)
EndOfLine_PastNewline(t, e) ==
    LET nl == Find(t, <<NL>>, e)
    IN  IF nl = -1 THEN Len(t) ELSE nl + 1
EndOfLine(t, e) ==
    LET nl == Find(t, <<NL>>, e)
    IN  IF nl = -1 THEN Len(t) ELSE nl

\* line 23: text.rfind('\n', 0, remove_start) + 1
LineStartOf_OnNewline(t, rs) == RFind(t, <<NL>>, 0, rs)
LineStartOf(t, rs) == RFind(t, <<NL>>, 0, rs) + 1

\* line 24: text[:line_start] + text[end:]
SpliceOf(t, ls, e) == Slice(t, 0, ls) \o Slice(t, e, Len(t))

\* line 25: the string handed to write_text
Written_Old(t, nt) == t
Written(t, nt) == nt

\* line 26: the arguments of print
RemovedMsg_Marker(ls, rs, e) == <<"removed block from", rs, "to", e>>
RemovedMsg(ls, rs, e) == <<"removed block from", ls, "to", e>>

----------------------------------------------------------------------------
(* The process                                                             *)

InitFrom(files) ==
    /\ file \in files
    /\ pc = "read"
    /\ text = <<>>
    /\ indices = <<>>
    /\ start = 0
    /\ i = -1
    /\ remove_start = -1
    /\ end = -1
    /\ line_start = -1
    /\ new_text = <<>>
    /\ out = <<>>
    /\ exitMsg = Running
    /\ reads = 0
    /\ writes = 0
    /\ file0 = file
    /\ n0 = Cardinality({ p \in 0..Len(file) : MatchAt(file, sub, p) })
    /\ successes = 0
    /\ settled = <<>>
    /\ lastOk = <<>>

Init == InitFrom(FilesUpTo(MaxChunks))

\* line 3: text = text_path.read_text(encoding='utf-8')
Read ==
    /\ pc = "read"
    /\ text' = ReadText(file)
    /\ reads' = reads + 1
    /\ pc' = "scan_init"
    /\ UNCHANGED <<file, indices, start, i, remove_start, end, line_start,
                   new_text, out, exitMsg, writes, history>>

\* lines 4-6: sub = ...; indices = []; start = 0
ScanInit ==
    /\ pc = "scan_init"
    /\ indices' = <<>>
    /\ start' = 0
    /\ pc' = "scan"
    /\ UNCHANGED <<file, text, i, remove_start, end, line_start, new_text,
                   out, exitMsg, reads, writes, history>>

\* lines 7-12: one iteration of the while True loop
Scan ==
    /\ pc = "scan"
    /\ i' = Find(text, sub, start)
    /\ IF i' = -1
       THEN /\ pc' = "print_indices"
            /\ UNCHANGED <<indices, start>>
       ELSE /\ indices' = Append(indices, i')
            /\ start' = NextStart(i')
            /\ pc' = "scan"
    /\ UNCHANGED <<file, text, remove_start, end, line_start, new_text,
                   out, exitMsg, reads, writes, history>>

\* line 13: print('indices', indices)
PrintIndices ==
    /\ pc = "print_indices"
    /\ out' = Append(out, <<"indices", indices>>)
    /\ pc' = "check_count"
    /\ UNCHANGED <<file, locals, exitMsg, reads, writes, history>>

\* lines 14-15: if len(indices) <= 1: raise SystemExit('nothing to remove')
CheckCount ==
    /\ pc = "check_count"
    /\ IF TooFew(indices)
       THEN /\ exitMsg' = NothingToRemove
            /\ pc' = "exited"
            /\ settled' = IF settled = <<>> THEN <<file>> ELSE settled
       ELSE /\ pc' = "find_end"
            /\ UNCHANGED <<exitMsg, settled>>
    /\ UNCHANGED <<file, locals, out, reads, writes, file0, n0, successes, lastOk>>

\* lines 16-17: remove_start = indices[-1]; end = text.find('</Section>', remove_start)
FindEnd ==
    /\ pc = "find_end"
    /\ remove_start' = LastIndex(indices)
    /\ end' = TagFrom(text, remove_start')
    /\ pc' = "check_end"
    /\ UNCHANGED <<file, text, indices, start, i, line_start, new_text,
                   out, exitMsg, reads, writes, history>>

\* lines 18-19: if end == -1: raise SystemExit('end not found')
CheckEnd ==
    /\ pc = "check_end"
    /\ IF EndMissing(end)
       THEN /\ exitMsg' = EndNotFound
            /\ pc' = "exited"
            /\ settled' = IF settled = <<>> THEN <<file>> ELSE settled
       ELSE /\ pc' = "find_newline"
            /\ UNCHANGED <<exitMsg, settled>>
    /\ UNCHANGED <<file, locals, out, reads, writes, file0, n0, successes, lastOk>>

\* lines 20-22: end = text.find('\n', end); if end == -1: end = len(text)
FindNewline ==
    /\ pc = "find_newline"
    /\ end' = EndOfLine(text, end)
    /\ pc' = "line_start"
    /\ UNCHANGED <<file, text, indices, start, i, remove_start, line_start,
                   new_text, out, exitMsg, reads, writes, history>>

\* line 23: line_start = text.rfind('\n', 0, remove_start) + 1
LineStart ==
    /\ pc = "line_start"
    /\ line_start' = LineStartOf(text, remove_start)
    /\ pc' = "splice"
    /\ UNCHANGED <<file, text, indices, start, i, remove_start, end,
                   new_text, out, exitMsg, reads, writes, history>>

\* line 24: new_text = text[:line_start] + text[end:]
Splice ==
    /\ pc = "splice"
    /\ new_text' = SpliceOf(text, line_start, end)
    /\ pc' = "write"
    /\ UNCHANGED <<file, text, indices, start, i, remove_start, end,
                   line_start, out, exitMsg, reads, writes, history>>

\* line 25: text_path.write_text(new_text, encoding='utf-8')
Write ==
    /\ pc = "write"
    /\ \E ls \in LineSeps : file' = WriteText(Written(text, new_text), ls)
    /\ writes' = writes + 1
    /\ pc' = "print_removed"
    /\ UNCHANGED <<locals, out, exitMsg, reads, history>>

\* line 26: print('removed block from', line_start, 'to', end); then the script ends
PrintRemoved ==
    /\ pc = "print_removed"
    /\ out' = Append(out, RemovedMsg(line_start, remove_start, end))
    /\ exitMsg' = ExitOk
    /\ successes' = successes + 1
    /\ lastOk' = <<file0>>
    /\ pc' = "exited"
    /\ UNCHANGED <<file, locals, reads, writes, file0, n0, settled>>

\* the script is started again on the file the previous process left
Rerun ==
    /\ pc = "exited"
    /\ pc' = "read"
    /\ text' = <<>>
    /\ indices' = <<>>
    /\ start' = 0
    /\ i' = -1
    /\ remove_start' = -1
    /\ end' = -1
    /\ line_start' = -1
    /\ new_text' = <<>>
    /\ out' = <<>>
    /\ exitMsg' = Running
    /\ reads' = 0
    /\ writes' = 0
    /\ file0' = file
    /\ UNCHANGED <<file, n0, successes, settled, lastOk>>

Next ==
    \/ Read
    \/ ScanInit
    \/ Scan
    \/ PrintIndices
    \/ CheckCount
    \/ FindEnd
    \/ CheckEnd
    \/ FindNewline
    \/ LineStart
    \/ Splice
    \/ Write
    \/ PrintRemoved

\* one process: the script run once on some content of the file
Spec == Init /\ [][Next]_vars

\* the script run again and again on the file it leaves
NextRepeated == Next \/ Rerun

RepeatSpec == Init /\ [][NextRepeated]_vars

\* the interpreter always executes the next statement of a running process
FairInit == InitFrom(FilesUpTo(MaxFairChunks))

FairSpec == FairInit /\ [][Next]_vars /\ WF_vars(Next)

----------------------------------------------------------------------------
(* Vocabulary of the properties.  The content of the file is what          *)
(* read_text returns for it; offsets are offsets into that content.        *)

Before == ReadText(file0)
After == ReadText(file)

\* the offsets at which the marker occurs in t
Occ(t) == { p \in 0..Len(t) : MatchAt(t, sub, p) }

\* the offsets >= m at which the closing tag occurs in t
TagsFrom(t, m) == { q \in m..Len(t) : MatchAt(t, closeTag, q) }

\* the offsets of the newlines of t within [a, b)
NewlinesIn(t, a, b) == { p \in a..(b - 1) : t[p + 1] = NL }

LastMarker(t) == Max(Occ(t))
HasBlock(t) == Cardinality(Occ(t)) >= 2 /\ TagsFrom(t, LastMarker(t)) # {}

\* just after the last newline before the last marker, 0 if there is none
SpanStart(t) ==
    LET nls == NewlinesIn(t, 0, LastMarker(t))
    IN  IF nls = {} THEN 0 ELSE Max(nls) + 1

\* the first newline at or after the first closing tag at or after the last
\* marker, len(t) if there is none
SpanEnd(t) ==
    LET q   == Min(TagsFrom(t, LastMarker(t)))
        nls == NewlinesIn(t, q, Len(t))
    IN  IF nls = {} THEN Len(t) ELSE Min(nls)

Exited == pc = "exited"
Succeeded == Exited /\ exitMsg = ExitOk
PastChecks == pc \in {"find_newline", "line_start", "splice", "write", "print_removed"}

----------------------------------------------------------------------------
\* C1: when the marker occurs zero times or once in the input file, the
\* process never gets past the count check, never writes, leaves the file
\* exactly as it was, and ends with 'nothing to remove'.  (Stated as: the
\* process does all that, or else the marker occurs at least twice.)
C1_NothingToRemove ==
    \/ /\ writes = 0
       /\ pc \notin {"find_end", "check_end"} /\ ~PastChecks
       /\ Exited => exitMsg = NothingToRemove
       /\ file = file0
    \/ Cardinality(Occ(file0)) >= 2

C1_Witness ==
    /\ Exited
    /\ Cardinality(Occ(file0)) = 1
    /\ TagsFrom(Before, LastMarker(Before)) # {}
    /\ exitMsg = NothingToRemove

\* C2 as stated: whenever the marker occurs at least twice the process ends
\* normally, with the spliced content in the file.
C2_AsStated ==
    (Exited /\ Cardinality(Occ(file0)) >= 2) =>
        /\ exitMsg = ExitOk
        /\ writes = 1
        /\ After = new_text

\* C2 (amended): when the marker occurs at least twice and a closing tag
\* occurs at or after its last occurrence, the process ends normally, having
\* written once, and the file holds the spliced content new_text.
C2_SucceedsWithBlock ==
    (Exited /\ HasBlock(file0)) =>
        /\ exitMsg = ExitOk
        /\ writes = 1
        /\ new_text = SpliceOf(text, line_start, end)
        /\ After = new_text
        /\ \E ls \in LineSeps : file = WriteText(new_text, ls)

C2_Witness ==
    /\ Succeeded
    /\ Cardinality(Occ(Before)) >= 3
    /\ After # Before

\* C3: after a successful process on content T the file holds
\* T[0..line_start) followed by T[end..len(T)), with line_start and end as the
\* claim defines them; every character outside [line_start, end) is kept in
\* place relative to its side, and nothing is inserted.
C3_Splice ==
    Succeeded =>
        LET T  == Before
            R  == After
            a  == SpanStart(T)
            b  == SpanEnd(T)
        IN  /\ line_start = a
            /\ end = b
            /\ R = SubSeq(T, 1, a) \o SubSeq(T, b + 1, Len(T))
            /\ Len(R) = Len(T) - (b - a)
            /\ \A p \in 0..(a - 1) : R[p + 1] = T[p + 1]
            /\ \A p \in b..(Len(T) - 1) : R[p - (b - a) + 1] = T[p + 1]

C3_Witness ==
    /\ Succeeded
    /\ SpanStart(Before) > 0
    /\ SpanStart(Before) < LastMarker(Before)
    /\ SpanEnd(Before) < Len(Before)

\* C4: when the marker occurs at least twice and no closing tag occurs at or
\* after its last occurrence, the process never gets past the end check,
\* never writes, leaves the file exactly as it was, and ends with
\* 'end not found'.  (Stated as: the process does all that, or else the
\* marker occurs less than twice or a closing tag follows its last occurrence.)
C4_EndNotFound ==
    \/ /\ writes = 0
       /\ ~PastChecks
       /\ Exited => exitMsg = EndNotFound
       /\ file = file0
    \/ Cardinality(Occ(file0)) < 2
    \/ TagsFrom(file0, LastMarker(file0)) # {}

C4_Witness ==
    /\ Exited
    /\ exitMsg = EndNotFound
    /\ TagsFrom(Before, 0) # {}

\* the lines of t, each with its terminating newline when it has one
RECURSIVE LinesFrom(_, _)
LinesFrom(t, a) ==
    IF a >= Len(t) THEN <<>>
    ELSE LET nls == NewlinesIn(t, a, Len(t))
         IN  IF nls = {} THEN << Slice(t, a, Len(t)) >>
             ELSE << Slice(t, a, Min(nls) + 1) >> \o LinesFrom(t, Min(nls) + 1)

LinesOf(t) == LinesFrom(t, 0)

\* the number (from 1) of the line of t that holds offset p
LineNo(t, p) == Cardinality(NewlinesIn(t, 0, p)) + 1

FirstRemovedLine(t) == LineNo(t, LastMarker(t))
LastRemovedLine(t) == LineNo(t, Min(TagsFrom(t, LastMarker(t))))

\* C5 as stated: the lines of the result are the lines of the original with
\* the lines from the last marker's through the closing tag's removed, each
\* together with its terminator.
C5_AsStated ==
    Succeeded =>
        LET T == Before
            L == LinesOf(T)
            a == FirstRemovedLine(T)
            b == LastRemovedLine(T)
        IN  LinesOf(After) = SubSeq(L, 1, a - 1) \o SubSeq(L, b + 1, Len(L))

\* C5 (amended): the lines of the result are the lines of the original with
\* the lines from the last marker's through the closing tag's removed, except
\* that the terminator of the last removed line, when it has one, is kept and
\* stands as an empty line in their place; every other line is unchanged.
C5_WholeLines ==
    Succeeded =>
        LET T    == Before
            L    == LinesOf(T)
            a    == FirstRemovedLine(T)
            b    == LastRemovedLine(T)
            kept == IF L[b][Len(L[b])] = NL THEN << <<NL>> >> ELSE << >>
        IN  LinesOf(After) = SubSeq(L, 1, a - 1) \o kept \o SubSeq(L, b + 1, Len(L))

C5_Witness ==
    /\ Succeeded
    /\ FirstRemovedLine(Before) > 1
    /\ LastRemovedLine(Before) < Len(LinesOf(Before))

\* the end of the block of the marker at m: just past its own following tag
BlockEnd(t, m) == Min(TagsFrom(t, m)) + Len(closeTag)

\* C6 as stated: every earlier marker occurrence, with the text through its
\* own following closing tag, is in the result at the same offset.
C6_AsStated ==
    Succeeded =>
        LET T == Before
            R == After
        IN  \A m \in Occ(T) \ {LastMarker(T)} :
                /\ BlockEnd(T, m) <= Len(R)
                /\ Slice(R, m, BlockEnd(T, m)) = Slice(T, m, BlockEnd(T, m))

\* C6 (amended): the marker occurrences of the result are exactly the earlier
\* occurrences that lie on a line before the line of the last occurrence,
\* each at the same offset; the text from such an occurrence through its own
\* following closing tag is unchanged when that tag ends before that line.
C6_EarlierLinesKept ==
    Succeeded =>
        LET T == Before
            R == After
            a == SpanStart(T)
        IN  /\ Occ(R) = { m \in Occ(T) : m < a }
            /\ \A m \in Occ(T) :
                  (m < a /\ BlockEnd(T, m) <= a) =>
                      Slice(R, m, BlockEnd(T, m)) = Slice(T, m, BlockEnd(T, m))

C6_Witness ==
    /\ Succeeded
    /\ \E m \in Occ(Before) : m < SpanStart(Before) /\ BlockEnd(Before, m) <= SpanStart(Before)
    /\ \E m \in Occ(Before) : SpanStart(Before) <= m /\ m < LastMarker(Before)

\* C7: a successful process on content with exactly two marker occurrences
\* leaves at most one; every later process then never writes, leaves the file
\* as it found it and ends with 'nothing to remove'.
C7_Idempotent ==
    /\ (Succeeded /\ Cardinality(Occ(file0)) = 2) => Cardinality(Occ(After)) <= 1
    /\ (lastOk # <<>> /\ file0 # lastOk[1] /\ Cardinality(Occ(lastOk[1])) = 2) =>
           /\ writes = 0
           /\ file = file0
           /\ Exited => exitMsg = NothingToRemove

C7_Witness ==
    /\ Exited
    /\ lastOk # <<>>
    /\ file0 # lastOk[1]
    /\ Cardinality(Occ(lastOk[1])) = 2
    /\ Cardinality(Occ(file0)) = 1
    /\ exitMsg = NothingToRemove

\* the members of a finite set of integers in increasing order
RECURSIVE Ascending(_)
Ascending(S) == IF S = {} THEN <<>> ELSE <<Min(S)>> \o Ascending(S \ {Min(S)})

\* C8: the scan loop ends, and when it has ended indices lists exactly the
\* offsets at which the marker occurs in the content, in increasing order,
\* none twice and none missing.
C8_Scan ==
    /\ [](pc = "print_indices" =>
            /\ indices = Ascending(Occ(text))
            /\ \A j, k \in 1..Len(indices) : j < k => indices[j] < indices[k]
            /\ { indices[j] : j \in 1..Len(indices) } = Occ(text))
    /\ (pc = "scan" ~> pc = "print_indices")

C8_Witness ==
    /\ pc = "print_indices"
    /\ Len(indices) >= 3
    /\ indices[1] > 0
    /\ indices[2] = indices[1] + Len(sub)

\* C9: a process reads the file once; the marker positions are printed
\* first, before either abort check, also by a process that aborts; the file
\* is written at most once and only after both checks have passed; the
\* removed-region message is printed only after that write and reports the
\* line_start and end the splice used.
C9_Order ==
    /\ reads = (IF pc = "read" THEN 0 ELSE 1)
    /\ writes \in {0, 1}
    /\ pc \in {"read", "scan_init", "scan", "print_indices"} => out = <<>>
    /\ pc \notin {"read", "scan_init", "scan", "print_indices"} =>
           /\ Len(out) >= 1
           /\ out[1] = <<"indices", indices>>
    /\ exitMsg \in {NothingToRemove, EndNotFound} => (writes = 0 /\ Len(out) = 1)
    /\ writes = 1 =>
           /\ pc \in {"print_removed", "exited"}
           /\ Len(indices) > 1
           /\ TagsFrom(text, remove_start) # {}
           /\ After = SpliceOf(text, line_start, end)
    /\ Len(out) <= 2
    /\ Len(out) = 2 =>
           /\ writes = 1
           /\ Succeeded
           /\ out[2] = <<"removed block from", line_start, "to", end>>
    /\ Succeeded => Len(out) = 2

C9_Witness ==
    /\ Succeeded
    /\ Len(out) = 2
    /\ writes = 1
    /\ line_start > 0
    /\ line_start < remove_start

\* C10: a successful process leaves strictly fewer marker occurrences and a
\* strictly shorter content, with 0 <= line_start <= last marker < end <=
\* len; starting from n occurrences at most n-1 processes succeed; once a
\* process has aborted the file never changes again.
C10_Progress ==
    /\ Succeeded =>
           LET T == Before
               R == After
           IN  /\ Cardinality(Occ(R)) < Cardinality(Occ(T))
               /\ Len(R) < Len(T)
               /\ remove_start = LastMarker(T)
               /\ 0 <= line_start /\ line_start <= remove_start
               /\ remove_start < end /\ end <= Len(T)
    /\ successes >= 1 => successes <= n0 - 1
    /\ settled # <<>> => file = settled[1]

C10_Witness ==
    /\ Exited
    /\ successes = 2
    /\ n0 = 3
    /\ settled # <<>>
    /\ exitMsg = NothingToRemove

====
